---- MODULE Spec2Model ----
(***************************************************************************)
(* The gallery generator of qiulinrenou.github.io.                         *)
(*                                                                         *)
(*   src/tools/generate-gallery.mjs  the album generator (walk, filter,    *)
(*       group by directory, album sidecars, date ordering, render, one    *)
(*       write)                                                            *)
(*   src/unnamed/part_000            the per-image generator               *)
(*       (walk, filter, one optional sidecar per image, render, one write) *)
(*                                                                         *)
(* Strings are sequences of one-character strings, so that trimming,       *)
(* slicing, searching, escaping and collation are computed character by    *)
(* character as the code computes them.                                    *)
(***************************************************************************)
EXTENDS Integers, Sequences, FiniteSets, TLC

VARIABLES
    fsys,        \* the input tree: directories, files with their text, listing order
    pc,          \* main's position
    walkList,    \* walk(): the entries found so far, directories not yet listed inline
    files,       \* main: files (after filter and sort)
    albums,      \* main: albums, the Map albumDir -> [imgPath...], as [dirs, imgs]
    probe,       \* Promise.all: per album, the candidate whose readFile is in flight (0: settled)
    albumInfo,   \* main: albumInfo, the array Promise.all resolves to
    sortedAlbumDirs, \* main: sortedAlbumDirs
    sections,    \* main of generate-gallery.mjs: sections
    items,       \* main of part_000: items
    outWrites,   \* every fs.writeFile(outFile, ...) that took effect, in order
    stdout,      \* console.log lines
    stderr,      \* console.error lines
    exitCode,    \* process exit status (-1 while running)
    arg,         \* the argument of the pure function under test
    ret          \* its result

vars == <<fsys, pc, walkList, files, albums, probe, albumInfo, sortedAlbumDirs,
          sections, items, outWrites, stdout, stderr, exitCode, arg, ret>>

(***************************************************************************)
(* Characters                                                              *)
(***************************************************************************)
Digits == <<"0", "1", "2", "3", "4", "5", "6", "7", "8", "9">>

Lower == <<"a", "b", "c", "d", "e", "f", "g", "h", "i", "j", "k", "l", "m",
           "n", "o", "p", "q", "r", "s", "t", "u", "v", "w", "x", "y", "z">>

Upper == <<"A", "B", "C", "D", "E", "F", "G", "H", "I", "J", "K", "L", "M",
           "N", "O", "P", "Q", "R", "S", "T", "U", "V", "W", "X", "Y", "Z">>

\* White space, punctuation and symbols in the order the root collation
\* gives them (all of them before the digits, the digits before the letters).
Marks == <<"\t", "\n", "\r", " ", "_", "-", ",", ";", ":", "!", "?", ".", "'",
           "\"", "(", ")", "[", "]", "{", "}", "@", "*", "/", "\\", "&", "#",
           "%", "+", "<", "=", ">", "|">>

WhiteSpace == {" ", "\t", "\n", "\r"}

Range(s) == {s[i] : i \in 1..Len(s)}

IndexIn(s, c) == CHOOSE i \in 1..Len(s) : s[i] = c

DigitSet == Range(Digits)

UpperSet == Range(Upper)

LetterSet == Range(Lower) \cup Range(Upper)

DigitValues == [c \in DigitSet |-> IndexIn(Digits, c) - 1]

LowerOf == [c \in UpperSet |-> Lower[IndexIn(Upper, c)]]

IsDigit(c) == c \in DigitSet

IsUpper(c) == c \in UpperSet

IsLetter(c) == c \in LetterSet

DigitVal(c) == DigitValues[c]

toLowerChar(c) == IF IsUpper(c) THEN LowerOf[c] ELSE c

toLowerCase(s) == [i \in 1..Len(s) |-> toLowerChar(s[i])]

(***************************************************************************)
(* String.prototype methods                                                *)
(***************************************************************************)
\* s.slice(from) with 0-based from, as the 1-based suffix
Drop(s, n) == IF n >= Len(s) THEN <<>> ELSE SubSeq(s, n + 1, Len(s))

Take(s, n) == IF n <= 0 THEN <<>> ELSE SubSeq(s, 1, IF n > Len(s) THEN Len(s) ELSE n)

startsWith(s, p) == Len(s) >= Len(p) /\ SubSeq(s, 1, Len(p)) = p

endsWith(s, p) == Len(s) >= Len(p) /\ SubSeq(s, Len(s) - Len(p) + 1, Len(s)) = p

\* s.indexOf(c) for a single character, 1-based; 0 when absent (-1 in the code)
indexOf(s, c) ==
    IF \E i \in 1..Len(s) : s[i] = c
    THEN CHOOSE i \in 1..Len(s) : s[i] = c /\ \A j \in 1..(i - 1) : s[j] # c
    ELSE 0

lastIndexOf(s, c) ==
    IF \E i \in 1..Len(s) : s[i] = c
    THEN CHOOSE i \in 1..Len(s) : s[i] = c /\ \A j \in (i + 1)..Len(s) : s[j] # c
    ELSE 0

trim(s) ==
    IF \A i \in 1..Len(s) : s[i] \in WhiteSpace
    THEN <<>>
    ELSE LET a == CHOOSE i \in 1..Len(s) :
                      s[i] \notin WhiteSpace /\ \A j \in 1..(i - 1) : s[j] \in WhiteSpace
             b == CHOOSE i \in 1..Len(s) :
                      s[i] \notin WhiteSpace /\ \A j \in (i + 1)..Len(s) : s[j] \in WhiteSpace
         IN  SubSeq(s, a, b)

\* s.slice(1, -1)
sliceInner(s) == IF Len(s) <= 2 THEN <<>> ELSE SubSeq(s, 2, Len(s) - 1)

RECURSIVE replaceAll(_, _, _)
replaceAll(s, c, rep) ==
    IF s = <<>> THEN <<>>
    ELSE (IF Head(s) = c THEN rep ELSE <<Head(s)>>) \o replaceAll(Tail(s), c, rep)

\* a line without the "\r" it may end with
chomp(line) ==
    IF line # <<>> /\ line[Len(line)] = "\r" THEN Take(line, Len(line) - 1) ELSE line

\* text.split(/\r?\n/), the first "\n" of s being at position n
RECURSIVE splitAt(_, _)
splitAt(s, n) ==
    IF n = 0 THEN <<s>>
    ELSE <<chomp(Take(s, n - 1))>> \o splitAt(Drop(s, n), indexOf(Drop(s, n), "\n"))

splitLines(s) == splitAt(s, indexOf(s, "\n"))

(***************************************************************************)
(* node:path (POSIX)                                                       *)
(***************************************************************************)
Slash == <<"/">>

join(dir, name) == dir \o Slash \o name

dirname(p) ==
    LET n == lastIndexOf(p, "/")
    IN  IF n = 0 THEN <<".">> ELSE IF n = 1 THEN Slash ELSE Take(p, n - 1)

basename(p) == Drop(p, lastIndexOf(p, "/"))

\* from the last "." of the base name to the end; "" when there is none or
\* when the only one is the base name's first character
extname(p) ==
    LET b == basename(p)
        n == lastIndexOf(b, ".")
    IN  IF n <= 1 THEN <<>> ELSE Drop(b, n - 1)

\* path.parse(p).name
parseName(p) ==
    LET b == basename(p)
    IN  Take(b, Len(b) - Len(extname(p)))

\* s.replace(pat, rep) for a string pattern: the first occurrence only
replaceFirst(s, pat, rep) ==
    LET hits == {i \in 1..(Len(s) - Len(pat) + 1) : SubSeq(s, i, i + Len(pat) - 1) = pat}
    IN  IF pat = <<>> THEN rep \o s
        ELSE IF hits = {} THEN s
        ELSE LET i == CHOOSE h \in hits : \A g \in hits : h <= g
             IN  Take(s, i - 1) \o rep \o Drop(s, i + Len(pat) - 1)

(***************************************************************************)
(* String.prototype.localeCompare(b, "en", {numeric}) on the characters of *)
(* Marks, Digits, Lower and Upper: marks before digits before letters; a   *)
(* run of digits compares by its value when numeric is set (so leading     *)
(* zeros do not count); letter case decides only between strings that are  *)
(* otherwise equal, lower case first.                                      *)
(***************************************************************************)
RECURSIVE NumVal(_, _)
NumVal(s, acc) == IF s = <<>> THEN acc ELSE NumVal(Tail(s), acc * 10 + DigitVal(Head(s)))

\* the length of the run of digits s starts with
RECURSIVE DigitRun(_)
DigitRun(s) == IF s = <<>> \/ ~IsDigit(Head(s)) THEN 0 ELSE 1 + DigitRun(Tail(s))

\* the <<class, weight>> of a character
CharKeys ==
    [c \in DigitSet \cup LetterSet \cup Range(Marks) |->
        IF IsDigit(c) THEN <<1, DigitVal(c)>>
        ELSE IF IsLetter(c) THEN <<2, IndexIn(Lower, toLowerChar(c))>>
        ELSE <<0, IndexIn(Marks, c)>>]

\* the key of s from position i on
RECURSIVE CollationKeyFrom(_, _, _)

\* the key of s from the run of n digits at position i on, in numeric collation
NumberKey(s, i, n) ==
    <<<<1, NumVal(SubSeq(s, i, i + n - 1), 0)>>>> \o CollationKeyFrom(s, i + n, TRUE)

CollationKeyFrom(s, i, numeric) ==
    IF i > Len(s) THEN <<>>
    ELSE IF numeric /\ IsDigit(s[i]) THEN NumberKey(s, i, DigitRun(Drop(s, i - 1)))
    ELSE <<CharKeys[s[i]]>> \o CollationKeyFrom(s, i + 1, numeric)

CollationKey(s, numeric) == CollationKeyFrom(s, 1, numeric)

RECURSIVE CaseKey(_)
CaseKey(s) ==
    IF s = <<>> THEN <<>>
    ELSE (IF IsLetter(Head(s)) THEN <<<<0, IF IsUpper(Head(s)) THEN 1 ELSE 0>>>> ELSE <<>>)
         \o CaseKey(Tail(s))

\* the order of two <<class, weight>> pairs
ComparePair(x, y) ==
    IF x[1] # y[1] THEN (IF x[1] < y[1] THEN -1 ELSE 1)
    ELSE IF x[2] < y[2] THEN -1 ELSE 1

\* the order of two sequences of pairs that first differ at the least of diff
CompareAt(k, l, diff) ==
    IF diff = {}
    THEN (IF Len(k) = Len(l) THEN 0 ELSE IF Len(k) < Len(l) THEN -1 ELSE 1)
    ELSE ComparePair(k[CHOOSE d \in diff : \A e \in diff : d <= e],
                     l[CHOOSE d \in diff : \A e \in diff : d <= e])

\* lexicographic comparison of two sequences of <<class, weight>> pairs
CompareKeys(k, l) ==
    CompareAt(k, l, {i \in 1..Len(k) : i <= Len(l) /\ k[i] # l[i]})

\* letter case decides when the primary comparison c ties
caseTie(c, a, b) == IF c # 0 THEN c ELSE CompareKeys(CaseKey(a), CaseKey(b))

localeCompare(a, b, numeric) ==
    caseTie(CompareKeys(CollationKey(a, numeric), CollationKey(b, numeric)), a, b)

\* Array.prototype.filter
filter(s, keep(_)) == SelectSeq(s, keep)

(***************************************************************************)
(* JavaScript values: undefined, null, a string, a non-negative integer    *)
(* (kept as its decimal digits, which is also its toString()), or an       *)
(* object, a sequence of [k, v] entries of which the last one for a key    *)
(* is the property's value.                                                *)
(***************************************************************************)
Undefined == [t |-> "undefined", s |-> <<>>, o |-> <<>>]

Null == [t |-> "null", s |-> <<>>, o |-> <<>>]

Str(s) == [t |-> "str", s |-> s, o |-> <<>>]

Num(digits) == [t |-> "num", s |-> digits, o |-> <<>>]

Obj(entries) == [t |-> "obj", s |-> <<>>, o |-> entries]

\* reading a property of undefined or null throws a TypeError
GetThrows(v) == v.t \in {"undefined", "null"}

\* v[key]
Get(v, key) ==
    LET hits == {i \in 1..Len(v.o) : v.o[i].k = key}
    IN  IF v.t # "obj" \/ hits = {} THEN Undefined
        ELSE v.o[CHOOSE i \in hits : \A j \in hits : j <= i].v

Truthy(v) ==
    CASE v.t = "str" -> v.s # <<>>
      [] v.t = "num" -> v.s # <<"0">>
      [] v.t = "obj" -> TRUE
      [] OTHER -> FALSE

\* a || b
OrElse(a, b) == IF Truthy(a) THEN a ELSE b

\* String(v) or v.toString() of a string or a number
JsString(v) ==
    CASE v.t \in {"str", "num"} -> v.s
      [] v.t = "null" -> <<"n", "u", "l", "l">>
      [] v.t = "undefined" -> <<"u", "n", "d", "e", "f", "i", "n", "e", "d">>
      [] OTHER -> <<"[", "o", "b", "j", "e", "c", "t", " ", "O", "b", "j", "e", "c", "t", "]">>

(***************************************************************************)
(* JSON.parse, for the texts the model reads: null, a non-negative         *)
(* integer, a string without escape sequences, or an object whose values   *)
(* are such scalars, with optional white space between the tokens.         *)
(* Anything else is a SyntaxError (ok = FALSE).                            *)
(***************************************************************************)
JsonFail == [ok |-> FALSE, v |-> Undefined, next |-> 0]

RECURSIVE SkipWs(_, _)
SkipWs(s, i) == IF i <= Len(s) /\ s[i] \in WhiteSpace THEN SkipWs(s, i + 1) ELSE i

\* the string literal whose opening quote is at position i - 1 and whose
\* closing quote is the n-th character of rest
JsonStringBody(rest, n, i) ==
    IF n = 0 \/ \E j \in 1..(n - 1) : rest[j] \in {"\\", "\n", "\r", "\t"}
    THEN JsonFail
    ELSE [ok |-> TRUE, v |-> Str(Take(rest, n - 1)), next |-> i + n]

JsonStringAt(s, i) ==
    IF i > Len(s) \/ s[i] # "\"" THEN JsonFail
    ELSE JsonStringBody(Drop(s, i), indexOf(Drop(s, i), "\""), i + 1)

\* the number of n digits at position i
JsonDigits(s, i, n) ==
    IF n = 0 \/ (n > 1 /\ s[i] = "0") THEN JsonFail
    ELSE [ok |-> TRUE, v |-> Num(SubSeq(s, i, i + n - 1)), next |-> i + n]

JsonNumberAt(s, i) == JsonDigits(s, i, DigitRun(Drop(s, i - 1)))

JsonScalarAt(s, i) ==
    IF i > Len(s) THEN JsonFail
    ELSE IF s[i] = "\"" THEN JsonStringAt(s, i)
    ELSE IF startsWith(Drop(s, i - 1), <<"n", "u", "l", "l">>)
    THEN [ok |-> TRUE, v |-> Null, next |-> i + 4]
    ELSE JsonNumberAt(s, i)

\* the members of an object from position i on, after "{" or ","
RECURSIVE JsonMembersAt(_, _, _)

\* after a member, at position e: "}" closes the object, "," starts the next
JsonAfterMember(s, e, acc) ==
    IF e > Len(s) THEN JsonFail
    ELSE IF s[e] = "}" THEN [ok |-> TRUE, v |-> Obj(acc), next |-> e + 1]
    ELSE IF s[e] = "," THEN JsonMembersAt(s, e + 1, acc)
    ELSE JsonFail

\* after the member's key and ":", the member's value val
JsonAfterColon(s, key, val, acc) ==
    IF ~val.ok THEN JsonFail
    ELSE JsonAfterMember(s, SkipWs(s, val.next), Append(acc, [k |-> key.v.s, v |-> val.v]))

\* after the member's key, at position c
JsonAfterKey(s, key, c, acc) ==
    IF c > Len(s) \/ s[c] # ":" THEN JsonFail
    ELSE JsonAfterColon(s, key, JsonScalarAt(s, SkipWs(s, c + 1)), acc)

JsonMember(s, key, acc) ==
    IF ~key.ok THEN JsonFail ELSE JsonAfterKey(s, key, SkipWs(s, key.next), acc)

JsonMembersAt(s, i, acc) == JsonMember(s, JsonStringAt(s, SkipWs(s, i)), acc)

\* the object whose "{" is at position j - 1
JsonObjectAt(s, j) ==
    IF SkipWs(s, j) <= Len(s) /\ s[SkipWs(s, j)] = "}"
    THEN [ok |-> TRUE, v |-> Obj(<<>>), next |-> SkipWs(s, j) + 1]
    ELSE JsonMembersAt(s, j, <<>>)

JsonValueAt(s, i) ==
    IF i > Len(s) THEN JsonFail
    ELSE IF s[i] = "{" THEN JsonObjectAt(s, i + 1)
    ELSE JsonScalarAt(s, i)

\* the value r is the whole text, up to trailing white space
JsonWhole(s, r) == IF r.ok /\ SkipWs(s, r.next) = Len(s) + 1 THEN r ELSE JsonFail

JSONparse(s) == JsonWhole(s, JsonValueAt(s, SkipWs(s, 1)))

(***************************************************************************)
(* parseSimpleYaml                                                         *)
(***************************************************************************)
\* s.slice(1, -1) when s is wrapped in a pair of double or of single quotes
unquote(s) ==
    IF (startsWith(s, <<"\"">>) /\ endsWith(s, <<"\"">>))
       \/ (startsWith(s, <<"'">>) /\ endsWith(s, <<"'">>))
    THEN sliceInner(s)
    ELSE s

\* the inline comment is cut off a value that does not start with a quote
stripComment(raw) ==
    IF ~(startsWith(raw, <<"\"">>) \/ startsWith(raw, <<"'">>)) /\ indexOf(raw, "#") # 0
    THEN trim(Take(raw, indexOf(raw, "#") - 1))
    ELSE raw

\* one `val` of generate-gallery.mjs: inline comment, then wrapping quotes
yamlValue(raw) == unquote(stripComment(raw))

\* one `val` of part_000: wrapping quotes only
yamlValue0(raw) == unquote(raw)

\* key and value of the trimmed line s whose first ":" is at position i
yamlEntry(s, i, isAlbumTool) ==
    IF s = <<>> \/ s[1] = "#" \/ i = 0 THEN <<>>
    ELSE <<[k |-> trim(Take(s, i - 1)),
            v |-> Str(IF isAlbumTool THEN yamlValue(trim(Drop(s, i)))
                      ELSE yamlValue0(trim(Drop(s, i))))]>>

\* the body of the loop over the lines, for one line
yamlLine(line, isAlbumTool) == yamlEntry(trim(line), indexOf(trim(line), ":"), isAlbumTool)

RECURSIVE yamlLines(_, _)
yamlLines(lines, isAlbumTool) ==
    IF lines = <<>> THEN <<>>
    ELSE yamlLine(Head(lines), isAlbumTool) \o yamlLines(Tail(lines), isAlbumTool)

\* generate-gallery.mjs
parseSimpleYaml(text) == Obj(yamlLines(splitLines(text), TRUE))

\* part_000
parseSimpleYaml0(text) == Obj(yamlLines(splitLines(text), FALSE))

(***************************************************************************)
(* escapeHtml and toSiteUrl                                                *)
(***************************************************************************)
Amp == <<"&", "a", "m", "p", ";">>

Lt == <<"&", "l", "t", ";">>

Gt == <<"&", "g", "t", ";">>

Quot == <<"&", "q", "u", "o", "t", ";">>

Apos == <<"&", "#", "3", "9", ";">>

\* the mutant: "&" replaced last instead of first
escapeHtml_ampLast(s) ==
    replaceAll(replaceAll(replaceAll(replaceAll(replaceAll(s,
        "<", Lt), ">", Gt), "\"", Quot), "'", Apos), "&", Amp)

\* of a string (the callers' String(s) is JsString)
escapeHtml(s) ==
    replaceAll(replaceAll(replaceAll(replaceAll(replaceAll(s,
        "&", Amp), "<", Lt), ">", Gt), "\"", Quot), "'", Apos)

SourcePrefix == <<"s", "o", "u", "r", "c", "e", "/">>

toSiteUrl(filePath) ==
    LET fwd == replaceAll(filePath, "\\", Slash)
    IN  Slash \o (IF startsWith(fwd, SourcePrefix) THEN Drop(fwd, Len(SourcePrefix)) ELSE fwd)

(***************************************************************************)
(* The input tree.  A directory of the tree is described by the files it   *)
(* holds (one of FileSets), the stem its sidecar files are named after     *)
(* (album, or the stem of an image), the state of each of the three        *)
(* sidecars (0: missing, -1: there but unreadable, n: there with           *)
(* Texts[n]) and whether it can be listed.                                 *)
(***************************************************************************)
imagesRoot == <<"s", "o", "u", "r", "c", "e", "/", "i", "m", "a", "g", "e", "s">>

outFile == <<"s", "o", "u", "r", "c", "e", "/", "g", "a", "l", "l", "e", "r", "y", "/", "i", "n", "d", "e", "x", ".", "h", "t", "m", "l">>

exts == {<<".", "j", "p", "g">>, <<".", "j", "p", "e", "g">>, <<".", "p", "n", "g">>, <<".", "w", "e", "b", "p">>, <<".", "g", "i", "f">>}

\* at most this many directories beneath the root
MaxDirs == 2

DirNames == <<<<"a", "2">>, <<"a", "0", "2">>, <<"a", "1", "0">>, <<"a", "2", "/", "s">>>>

FileSets ==
    << <<<<"i", "m", "g", "1", ".", "p", "n", "g">>, <<"i", "m", "g", "1", "0", ".", "p", "n", "g">>, <<"i", "m", "g", "2", ".", "p", "n", "g">>>>,
       <<<<"p", ".", "J", "P", "G">>, <<"n", ".", "t", "x", "t">>>>,
       <<<<"i", "m", "g", "2", ".", "p", "n", "g">>>>,
       <<<<"n", ".", "t", "x", "t">>>> >>

Stems == <<<<"a", "l", "b", "u", "m">>, <<"i", "m", "g", "2">>, <<"p">>>>

SidecarExts == <<<<".", "y", "m", "l">>, <<".", "y", "a", "m", "l">>, <<".", "j", "s", "o", "n">>>>

Texts ==
    << <<"t", "i", "t", "l", "e", ":", " ", "<", "s", "c", "r", "i", "p", "t", ">", "&", "'", "\"", "\n", "d", "a", "t", "e", ":", " ", "2", "0", "2", "4", "-", "0", "1", "-", "0", "1", " ", "#", " ", "s", "h", "o", "t", "\n">>,
       <<"d", "a", "t", "e", ":", " ", "2", "0", "2", "3", "-", "0", "5", "-", "0", "5">>,
       <<"{", "\"", "t", "i", "t", "l", "e", "\"", ":", "\"", "T", "\"", ",", "\"", "d", "a", "t", "e", "\"", ":", "\"", "2", "0", "2", "4", "-", "0", "1", "-", "0", "1", "\"", ",", "\"", "d", "e", "s", "c", "\"", ":", "7", "}">>,
       <<"n", "u", "l", "l">>,
       <<"{", "\"", "d", "a", "t", "e", "\"", ":">>,
       <<"#", " ", "n", "o", "t", "h", "i", "n", "g">>,
       <<"\"", "x", "\"">>,
       <<"d", "e", "s", "c", ":", " ", " ", "'", " ", "a", "&", "l", "t", ";", " ", "'", " ", "\r", "\n", "t", "i", "t", "l", "e", ":", " ", "0">> >>

Absent == [there |-> FALSE, listable |-> FALSE, files |-> 0, stem |-> 0, side |-> <<0, 0, 0>>]

Dir(f, st, sd) == [there |-> TRUE, listable |-> TRUE, files |-> f, stem |-> st, side |-> sd]

Unlistable == [there |-> TRUE, listable |-> FALSE, files |-> 0, stem |-> 0, side |-> <<0, 0, 0>>]

DirIds == 1..Len(DirNames)

DirPath(i) == join(imagesRoot, DirNames[i])

Reverse(s) == [i \in 1..Len(s) |-> s[Len(s) + 1 - i]]

SidecarName(d, k) == Stems[d.stem] \o SidecarExts[k]

\* the directories directly beneath p, in the order of DirNames
ChildDirs(fs, p) ==
    SelectSeq([j \in DirIds |-> j], LAMBDA j : fs.dirs[j].there /\ dirname(DirPath(j)) = p)

\* what a directory's listing holds, before the listing order is applied
Listing(fs, p) ==
    LET here == {i \in DirIds : fs.dirs[i].there /\ fs.dirs[i].listable /\ DirPath(i) = p}
        own  == IF here = {} THEN <<>>
                ELSE LET d == fs.dirs[CHOOSE i \in here : TRUE]
                         side == SelectSeq(<<1, 2, 3>>, LAMBDA k : d.side[k] # 0)
                     IN  [n \in 1..Len(FileSets[d.files]) |->
                              [name |-> FileSets[d.files][n], isDir |-> FALSE]]
                         \o [n \in 1..Len(side) |->
                              [name |-> SidecarName(d, side[n]), isDir |-> FALSE]]
        sub  == ChildDirs(fs, p)
    IN  own \o [n \in 1..Len(sub) |-> [name |-> basename(DirPath(sub[n])), isDir |-> TRUE]]

\* fs.readdir(dir, { withFileTypes: true }): rejects when dir cannot be listed
readdir(fs, p) ==
    LET ok == IF p = imagesRoot THEN fs.root
              ELSE \E i \in DirIds : fs.dirs[i].there /\ fs.dirs[i].listable /\ DirPath(i) = p
    IN  [ok |-> ok,
         entries |-> IF ~ok THEN <<>>
                     ELSE IF fs.rev THEN Reverse(Listing(fs, p)) ELSE Listing(fs, p)]

\* fs.readFile(file, "utf8") of a sidecar: rejects when it is missing or unreadable
readFile(fs, file) ==
    LET hits == {<<i, k>> \in DirIds \X {1, 2, 3} :
                    /\ fs.root /\ fs.dirs[i].there /\ fs.dirs[i].stem # 0
                    /\ fs.dirs[i].side[k] >= 1
                    /\ join(DirPath(i), SidecarName(fs.dirs[i], k)) = file}
    IN  IF hits = {} THEN [ok |-> FALSE, text |-> <<>>]
        ELSE LET h == CHOOSE x \in hits : TRUE
             IN  [ok |-> TRUE, text |-> Texts[fs.dirs[h[1]].side[h[2]]]]

(***************************************************************************)
(* walk: one readdir at a time, the entries of a directory taking its      *)
(* place in the list, so that the list ends as the files in walk's order.  *)
(***************************************************************************)
HasDir(list) == \E i \in 1..Len(list) : list[i].d

FirstDir(list) == CHOOSE i \in 1..Len(list) : list[i].d /\ \A j \in 1..(i - 1) : ~list[j].d

Expand(list, i, entries) ==
    Take(list, i - 1)
    \o [k \in 1..Len(entries) |-> [p |-> join(list[i].p, entries[k].name), d |-> entries[k].isDir]]
    \o Drop(list, i)

\* the mutant: a readdir that fails is taken as an empty directory
walk_swallow(fs, list) ==
    [ok |-> TRUE,
     list |-> Expand(list, FirstDir(list), readdir(fs, list[FirstDir(list)].p).entries)]

\* the listing r of the first directory of the list takes its place
walkInto(list, r) ==
    IF r.ok THEN [ok |-> TRUE, list |-> Expand(list, FirstDir(list), r.entries)]
    ELSE [ok |-> FALSE, list |-> list]

walk(fs, list) == walkInto(list, readdir(fs, list[FirstDir(list)].p))

(***************************************************************************)
(* main of generate-gallery.mjs: filter, sort, group                       *)
(***************************************************************************)
\* the mutant: the extension compared as written
isImage_caseSensitive(f) == extname(f) \in exts

isImage(f) == toLowerCase(extname(f)) \in exts

pathCmp(a, b) == localeCompare(a, b, TRUE)

\* the mutant: { numeric: true } left out
imgCmp_plain(a, b) == localeCompare(a, b, FALSE)

imgCmp(a, b) == localeCompare(a, b, TRUE)

\* the comparator of albumInfo.sort, byDate and byDir being the two
\* localeCompare results it returns
albumOrder(a, b, byDate, byDir) ==
    IF a.date # <<>> /\ b.date # <<>>
    THEN IF a.date # b.date THEN byDate ELSE byDir
    ELSE IF a.date # <<>> /\ b.date = <<>> THEN -1
    ELSE IF a.date = <<>> /\ b.date # <<>> THEN 1
    ELSE byDir

\* the mutant: oldest first
albumCmp_ascending(a, b) ==
    albumOrder(a, b, localeCompare(a.date, b.date, FALSE), localeCompare(a.dir, b.dir, TRUE))

albumCmp(a, b) ==
    albumOrder(a, b, localeCompare(b.date, a.date, FALSE), localeCompare(a.dir, b.dir, TRUE))

\* the comparator of each of main's three sorts
compare(which, a, b) ==
    CASE which = "files" -> pathCmp(a, b)
      [] which = "imgs" -> imgCmp(a, b)
      [] which = "albumInfo" -> albumCmp(a, b)

\* Array.prototype.sort(cmp), which is stable: each element goes in after
\* the elements that do not compare greater than it
RECURSIVE insert(_, _, _)
insert(which, done, x) ==
    IF done = <<>> THEN <<x>>
    ELSE IF compare(which, Head(done), x) > 0 THEN <<x>> \o done
    ELSE <<Head(done)>> \o insert(which, Tail(done), x)

RECURSIVE sortFrom(_, _, _)
sortFrom(which, done, rest) ==
    IF rest = <<>> THEN done
    ELSE sortFrom(which, insert(which, done, Head(rest)), Tail(rest))

sort(which, s) == sortFrom(which, <<>>, s)

\* albums: the Map in insertion order, as a sequence of [dir, imgs]
RECURSIVE groupByDir(_, _)
groupByDir(fl, acc) ==
    IF fl = <<>> THEN acc
    ELSE LET albumDir == dirname(Head(fl))
             hits == {i \in 1..Len(acc) : acc[i].dir = albumDir}
         IN  IF hits = {}
             THEN groupByDir(Tail(fl), Append(acc, [dir |-> albumDir, imgs |-> <<Head(fl)>>]))
             ELSE LET i == CHOOSE h \in hits : TRUE
                  IN  groupByDir(Tail(fl), [acc EXCEPT ![i].imgs = Append(@, Head(fl))])

albumDirs == [i \in 1..Len(albums) |-> albums[i].dir]

albumGet(albumDir) == albums[CHOOSE i \in 1..Len(albums) : albums[i].dir = albumDir].imgs

(***************************************************************************)
(* readAlbumMeta                                                           *)
(***************************************************************************)
Candidates == <<<<"a", "l", "b", "u", "m", ".", "y", "m", "l">>, <<"a", "l", "b", "u", "m", ".", "y", "a", "m", "l">>, <<"a", "l", "b", "u", "m", ".", "j", "s", "o", "n">>>>

NoMeta == [title |-> <<>>, date |-> <<>>, desc |-> <<>>]

Returned(m) == [kind |-> "return", meta |-> m]

\* the mutant: the catch block rethrows
onError_rethrow == [kind |-> "throw", meta |-> NoMeta]

\* catch { // ignore }
onError == [kind |-> "caught", meta |-> NoMeta]

\* (data[key] || "").toString().trim()
field(data, key) == trim(JsString(OrElse(Get(data, key), Str(<<>>))))

\* JSON.parse or parseSimpleYaml of what readFile gave, by the extension of p
parseCandidate(p, raw) ==
    IF ~raw.ok THEN JsonFail
    ELSE IF endsWith(p, <<".", "j", "s", "o", "n">>) THEN JSONparse(raw.text)
    ELSE [ok |-> TRUE, v |-> parseSimpleYaml(raw.text), next |-> 0]

\* the metadata returned from the parsed data, or the jump to the catch block
metaOf(parsed) ==
    IF ~parsed.ok \/ GetThrows(parsed.v) THEN onError
    ELSE Returned([title |-> field(parsed.v, <<"t", "i", "t", "l", "e">>),
                   date  |-> field(parsed.v, <<"d", "a", "t", "e">>),
                   desc  |-> field(parsed.v, <<"d", "e", "s", "c">>)])

\* the body of the loop of readAlbumMeta for candidate p
tryCandidate(fs, albumDir, p) == metaOf(parseCandidate(p, readFile(fs, join(albumDir, p))))

\* readAlbumMeta from candidate k on
RECURSIVE readAlbumMetaFrom(_, _, _)

\* the loop goes on to candidate k when candidate k - 1 ended in the catch block
nextCandidate(fs, albumDir, k, r) ==
    IF r.kind = "caught" THEN readAlbumMetaFrom(fs, albumDir, k) ELSE r

readAlbumMetaFrom(fs, albumDir, k) ==
    IF k > Len(Candidates) THEN Returned(NoMeta)
    ELSE nextCandidate(fs, albumDir, k + 1, tryCandidate(fs, albumDir, Candidates[k]))

readAlbumMeta(fs, albumDir) == readAlbumMetaFrom(fs, albumDir, 1)

(***************************************************************************)
(* main of generate-gallery.mjs, one action per await                      *)
(***************************************************************************)
Pending == [dir |-> <<>>, date |-> <<>>, set |-> FALSE]

\* the mutant: results collected in the order the reads complete
settle_arrival(info, i, r) ==
    LET free == CHOOSE k \in 1..Len(info) : ~info[k].set /\ \A j \in 1..(k - 1) : info[j].set
    IN  [info EXCEPT ![free] = r]

\* Promise.all: the result of the i-th promise is the i-th element
settle(info, i, r) == [info EXCEPT ![i] = r]

\* the mutant: the document is written as soon as the loop is entered
loopDone_early(secs, dirs) == Len(secs) >= 0

\* for (const albumDir of sortedAlbumDirs) has run out
loopDone(secs, dirs) == Len(secs) = Len(dirs)

\* one card: the image's path, its site URL and its escaped alt text
card(p) == [src |-> p, url |-> toSiteUrl(p), alt |-> escapeHtml(parseName(p))]

\* one section: the texts inserted into the template (date and desc are
\* empty when the element is left out)
section(albumDir, albumMeta, imgs) ==
    LET albumTitle == IF albumMeta.title # <<>> THEN albumMeta.title ELSE basename(albumDir)
    IN  [dir   |-> albumDir,
         title |-> escapeHtml(albumTitle),
         date  |-> escapeHtml(albumMeta.date),
         desc  |-> escapeHtml(albumMeta.desc),
         cards |-> [n \in 1..Len(imgs) |-> card(imgs[n])]]

\* main().catch: the error is printed and the process exits with status 1
Fail(err) ==
    /\ pc' = "failed"
    /\ stderr' = Append(stderr, err)
    /\ exitCode' = 1

Mkdir ==
    /\ pc = "start"
    /\ pc' = "walk"
    /\ walkList' = <<[p |-> imagesRoot, d |-> TRUE]>>
    /\ UNCHANGED <<fsys, files, albums, probe, albumInfo, sortedAlbumDirs, sections,
                   items, outWrites, stdout, stderr, exitCode, arg, ret>>

MkdirFails ==
    /\ pc = "start"
    /\ Fail("mkdir")
    /\ UNCHANGED <<fsys, walkList, files, albums, probe, albumInfo, sortedAlbumDirs,
                   sections, items, outWrites, stdout, arg, ret>>

Readdir ==
    /\ pc = "walk"
    /\ HasDir(walkList)
    /\ \E r \in {walk(fsys, walkList)} :
           IF r.ok
           THEN walkList' = r.list /\ UNCHANGED <<pc, stderr, exitCode>>
           ELSE Fail("readdir") /\ UNCHANGED walkList
    /\ UNCHANGED <<fsys, files, albums, probe, albumInfo, sortedAlbumDirs, sections,
                   items, outWrites, stdout, arg, ret>>

WalkReturn ==
    /\ pc = "walk"
    /\ ~HasDir(walkList)
    /\ files' = sort("files", filter([i \in 1..Len(walkList) |-> walkList[i].p], isImage))
    /\ albums' = groupByDir(files', <<>>)
    /\ probe' = [i \in 1..Len(albums') |-> 1]
    /\ albumInfo' = [i \in 1..Len(albums') |-> Pending]
    /\ pc' = "meta"
    /\ UNCHANGED <<fsys, walkList, sortedAlbumDirs, sections, items, outWrites, stdout, stderr,
                   exitCode, arg, ret>>

\* the readFile in flight for album i completes, and readAlbumMeta runs on to
\* its next readFile or to its return
ProbeDone(i) ==
    /\ pc = "meta"
    /\ probe[i] # 0
    /\ \E r \in {tryCandidate(fsys, albumDirs[i], Candidates[probe[i]])} :
           IF r.kind = "throw"
           THEN Fail("meta") /\ UNCHANGED <<probe, albumInfo>>
           ELSE IF r.kind = "caught" /\ probe[i] < Len(Candidates)
           THEN /\ probe' = [probe EXCEPT ![i] = @ + 1]
                /\ UNCHANGED <<pc, albumInfo, stderr, exitCode>>
           ELSE /\ probe' = [probe EXCEPT ![i] = 0]
                /\ albumInfo' = settle(albumInfo, i,
                                       [dir |-> albumDirs[i], date |-> r.meta.date, set |-> TRUE])
                /\ UNCHANGED <<pc, stderr, exitCode>>
    /\ UNCHANGED <<fsys, walkList, files, albums, sortedAlbumDirs, sections, items, outWrites,
                   stdout, arg, ret>>

SortAlbums ==
    /\ pc = "meta"
    /\ \A i \in 1..Len(probe) : probe[i] = 0
    /\ albumInfo' = sort("albumInfo", albumInfo)
    /\ sortedAlbumDirs' = [i \in 1..Len(albumInfo) |-> albumInfo'[i].dir]
    /\ pc' = "render"
    /\ UNCHANGED <<fsys, walkList, files, albums, probe, sections, items, outWrites, stdout,
                   stderr, exitCode, arg, ret>>

RenderAlbum ==
    /\ pc = "render"
    /\ ~loopDone(sections, sortedAlbumDirs)
    /\ \E albumDir \in {sortedAlbumDirs[Len(sections) + 1]} :
       \E r \in {readAlbumMeta(fsys, albumDir)}, imgs \in {sort("imgs", albumGet(albumDir))} :
           IF r.kind = "throw"
           THEN Fail("meta") /\ UNCHANGED <<albums, sections>>
           ELSE /\ albums' = [i \in 1..Len(albums) |->
                                 IF albums[i].dir = albumDir
                                 THEN [albums[i] EXCEPT !.imgs = imgs] ELSE albums[i]]
                /\ sections' = Append(sections, section(albumDir, r.meta, imgs))
                /\ UNCHANGED <<pc, stderr, exitCode>>
    /\ UNCHANGED <<fsys, walkList, files, probe, albumInfo, sortedAlbumDirs, items, outWrites,
                   stdout, arg, ret>>

WriteFile ==
    /\ pc = "render"
    /\ loopDone(sections, sortedAlbumDirs)
    /\ outWrites' = Append(outWrites, [file |-> outFile, doc |-> sections])
    /\ pc' = "written"
    /\ UNCHANGED <<fsys, walkList, files, albums, probe, albumInfo, sortedAlbumDirs,
                   sections, stdout, stderr, exitCode, items, arg, ret>>

WriteFails ==
    /\ pc = "render"
    /\ loopDone(sections, sortedAlbumDirs)
    /\ Fail("write")
    /\ UNCHANGED <<fsys, walkList, files, albums, probe, albumInfo, sortedAlbumDirs,
                   sections, items, outWrites, stdout, arg, ret>>

LogSummary ==
    /\ pc = "written"
    /\ stdout' = Append(stdout, [images |-> Len(files), albums |-> Len(albumDirs)])
    /\ exitCode' = 0
    /\ pc' = "done"
    /\ UNCHANGED <<fsys, walkList, files, albums, probe, albumInfo, sortedAlbumDirs,
                   sections, outWrites, stderr, items, arg, ret>>

(***************************************************************************)
(* The album generator on every tree of at most MaxDirs directories, each  *)
(* described by one of AlbumDirs, in either listing order.                 *)
(***************************************************************************)
AlbumDirs ==
    { Dir(1, 1, <<0, 0, 0>>),
      Dir(2, 1, <<1, 0, 0>>),
      Dir(3, 1, <<0, 2, 3>>),
      Dir(3, 1, <<0, 0, 3>>),
      Dir(3, 1, <<-1, 0, 4>>),
      Dir(4, 1, <<2, 0, 0>>),
      Dir(1, 1, <<6, 2, 5>>),
      Dir(3, 1, <<0, 8, 0>>),
      Unlistable }

Closed(dirs) ==
    \A i \in DirIds : dirs[i].there =>
        \/ dirname(DirPath(i)) = imagesRoot
        \/ \E j \in DirIds : dirs[j].there /\ DirPath(j) = dirname(DirPath(i))

Trees(profiles) ==
    {d \in [DirIds -> profiles \cup {Absent}] :
        /\ Cardinality({i \in DirIds : d[i].there}) <= MaxDirs
        /\ Closed(d)}

NoRoot == [root |-> FALSE, rev |-> FALSE, dirs |-> [i \in DirIds |-> Absent]]

\* everything but the tree and main's position, as a run starts
Fresh ==
    /\ walkList = <<>>
    /\ files = <<>>
    /\ albums = <<>>
    /\ probe = <<>>
    /\ albumInfo = <<>>
    /\ sortedAlbumDirs = <<>>
    /\ sections = <<>>
    /\ items = <<>>
    /\ outWrites = <<>>
    /\ stdout = <<>>
    /\ stderr = <<>>
    /\ exitCode = -1
    /\ ret = <<>>

Start ==
    /\ pc = "start"
    /\ arg = <<>>
    /\ Fresh

Init ==
    /\ fsys \in {[root |-> TRUE, rev |-> r, dirs |-> d] : r \in BOOLEAN, d \in Trees(AlbumDirs)}
                \cup {NoRoot}
    /\ Start

Next ==
    \/ Mkdir
    \/ MkdirFails
    \/ Readdir
    \/ WalkReturn
    \/ \E i \in 1..Len(probe) : ProbeDone(i)
    \/ SortAlbums
    \/ RenderAlbum
    \/ WriteFile
    \/ WriteFails
    \/ LogSummary

Spec == Init /\ [][Next]_vars

(***************************************************************************)
(* Properties of the album generator, checked under Spec                   *)
(***************************************************************************)
\* the gallery: the sections of the document written to the output file
Gallery == IF outWrites = <<>> THEN <<>> ELSE outWrites[1].doc

\* the characters of a date in their code-unit order
DateChars == <<"-", "0", "1", "2", "3", "4", "5", "6", "7", "8", "9">>

\* a >= b as strings of DateChars: equal, or greater at the first difference,
\* or a proper extension of b
GeqString(a, b) ==
    \/ a = b
    \/ Len(a) > Len(b) /\ SubSeq(a, 1, Len(b)) = b
    \/ \E i \in 1..Len(a) :
          /\ i <= Len(b)
          /\ SubSeq(a, 1, i - 1) = SubSeq(b, 1, i - 1)
          /\ IndexIn(DateChars, a[i]) > IndexIn(DateChars, b[i])

SomeUnlistable == ~fsys.root \/ \E i \in DirIds : fsys.dirs[i].there /\ ~fsys.dirs[i].listable

\* C3: when the root or a directory beneath it cannot be listed, the run never
\* gets past the traversal: nothing is written, no summary is printed, and
\* where it has ended it has ended with the error printed and exit status 1
C3_TraversalErrorEndsRun ==
    SomeUnlistable =>
        /\ pc \in {"start", "walk", "failed"}
        /\ outWrites = <<>>
        /\ stdout = <<>>
        /\ exitCode # 0
        /\ pc = "failed" => (exitCode = 1 /\ stderr # <<>>)
        /\ pc = "walk" => HasDir(walkList)

\* C3 witness: the root was listed, a directory beneath it could not be, and
\* the run has ended on the readdir error
C3_Witness ==
    /\ fsys.root
    /\ SomeUnlistable
    /\ pc = "failed"
    /\ stderr = <<"readdir">>
    /\ Len(walkList) > 1

\* C4: at most one write of the output file; when it happens the traversal is
\* over, every metadata read has completed, the document holds one section
\* for each album, and it is the only write of a run that succeeds; the
\* summary is printed only after it
C4_OneWriteAtTheEnd ==
    /\ Len(outWrites) <= 1
    /\ outWrites # <<>> =>
          /\ pc \in {"written", "done"}
          /\ ~HasDir(walkList)
          /\ \A i \in 1..Len(probe) : probe[i] = 0
          /\ outWrites[1].file = outFile
          /\ Len(outWrites[1].doc) = Len(albums)
          /\ {outWrites[1].doc[i].dir : i \in 1..Len(outWrites[1].doc)}
                = {albums[i].dir : i \in 1..Len(albums)}
    /\ stdout # <<>> => (outWrites # <<>> /\ pc = "done")
    /\ pc = "done" => (Len(outWrites) = 1 /\ Len(stdout) = 1 /\ exitCode = 0)
    /\ exitCode = 0 => pc = "done"

\* C4 witness: a run over two albums has written the document and printed
\* the summary
C4_Witness ==
    /\ pc = "done"
    /\ Len(outWrites) = 1
    /\ Len(outWrites[1].doc) = 2
    /\ Len(stdout) = 1

\* what Promise.all yields when album i's result is the i-th element
InputInfo ==
    [i \in 1..Len(albums) |->
        [dir |-> albums[i].dir, date |-> readAlbumMeta(fsys, albums[i].dir).meta.date,
         set |-> TRUE]]

\* the images found under albumDir, in numeric-aware order of their paths
InputImages(albumDir) == sort("imgs", SelectSeq(files, LAMBDA f : dirname(f) = albumDir))

\* C5: the album order, and the image order within each rendered album, are a
\* function of the input alone: whatever the order in which the metadata
\* reads completed, the albums are in the order that sorting the results in
\* album order gives
C5_OrderFromInputOnly ==
    pc \in {"render", "written", "done"} =>
        /\ albumInfo = sort("albumInfo", InputInfo)
        /\ sortedAlbumDirs = [i \in 1..Len(albumInfo) |-> albumInfo[i].dir]
        /\ \A k \in 1..Len(sections) :
              /\ sections[k].dir = sortedAlbumDirs[k]
              /\ [n \in 1..Len(sections[k].cards) |-> sections[k].cards[n].src]
                    = InputImages(sections[k].dir)

\* C5 witness: a finished run over two albums that tie in the album order,
\* whose metadata reads could complete in either order
C5_Witness ==
    /\ pc = "done"
    /\ Len(sections) = 2
    /\ sections[1].date = sections[2].date
    /\ localeCompare(sections[1].dir, sections[2].dir, TRUE) = 0

\* the name ends in one of the image extensions, letter case aside
HasImageExt(name) ==
    \E e \in exts :
        /\ Len(name) > Len(e)
        /\ toLowerCase(SubSeq(name, Len(name) - Len(e) + 1, Len(name))) = e

\* <<directory, path>> of every image file of the tree
ImagesInTree ==
    UNION {{<<DirPath(i), join(DirPath(i), FileSets[fsys.dirs[i].files][n])>> :
               n \in {m \in 1..Len(FileSets[fsys.dirs[i].files]) :
                         HasImageExt(FileSets[fsys.dirs[i].files][m])}} :
           i \in {j \in DirIds : fsys.dirs[j].there /\ fsys.dirs[j].listable}}

\* <<album directory, path>> of every image of every album
ImagesInAlbums ==
    UNION {{<<albums[k].dir, albums[k].imgs[m]>> : m \in 1..Len(albums[k].imgs)} :
           k \in 1..Len(albums)}

\* C7: once the traversal is over, the albums are the directories that hold
\* at least one image file: each album has an image, each image file of the
\* tree is in the album of its parent directory and in no other, and a
\* directory without images has no album whatever sidecars it holds
C7_AlbumsAreImageDirs ==
    pc \in {"meta", "render", "written", "done"} =>
        /\ ImagesInAlbums = ImagesInTree
        /\ \A k \in 1..Len(albums) :
              /\ Len(albums[k].imgs) >= 1
              /\ Cardinality({albums[k].imgs[m] : m \in 1..Len(albums[k].imgs)})
                    = Len(albums[k].imgs)
              /\ \A l \in 1..Len(albums) : albums[l].dir = albums[k].dir => l = k

\* C7 witness: a finished run on a tree with an album, where a directory
\* holding an album.yml but no image has no album
C7_Witness ==
    /\ pc = "done"
    /\ Len(albums) >= 1
    /\ \E i \in DirIds :
          /\ fsys.dirs[i].there /\ fsys.dirs[i].listable
          /\ fsys.dirs[i].side[1] >= 1
          /\ \A k \in 1..Len(albums) : albums[k].dir # DirPath(i)

\* s holds none of < > " ' and no & other than the first character of one of
\* the five entities
IsEscaped(s) ==
    \A i \in 1..Len(s) :
        /\ s[i] \notin {"<", ">", "\"", "'"}
        /\ s[i] = "&" => \E e \in {Amp, Lt, Gt, Quot, Apos} : startsWith(Drop(s, i - 1), e)

\* the text a browser shows for s: each of the five entities read back
RECURSIVE Unescape(_)
Unescape(s) ==
    IF s = <<>> THEN <<>>
    ELSE IF startsWith(s, Amp) THEN <<"&">> \o Unescape(Drop(s, Len(Amp)))
    ELSE IF startsWith(s, Lt) THEN <<"<">> \o Unescape(Drop(s, Len(Lt)))
    ELSE IF startsWith(s, Gt) THEN <<">">> \o Unescape(Drop(s, Len(Gt)))
    ELSE IF startsWith(s, Quot) THEN <<"\"">> \o Unescape(Drop(s, Len(Quot)))
    ELSE IF startsWith(s, Apos) THEN <<"'">> \o Unescape(Drop(s, Len(Apos)))
    ELSE <<Head(s)>> \o Unescape(Tail(s))

\* the rendered text is escaped and reads back as the text raw
Renders(rendered, raw) == IsEscaped(rendered) /\ Unescape(rendered) = raw

\* C8: the title (or the directory name standing in for it), the date, the
\* description and every alt text of every section are escaped: none of
\* < > " ' is left, every & starts an entity, and the text reads back as the
\* metadata value, so that a title with <script> is there as &lt;script&gt;
C8_UserTextEscaped ==
    \A k \in 1..Len(sections) :
        /\ \E m \in {readAlbumMeta(fsys, sections[k].dir).meta} :
              /\ Renders(sections[k].title,
                         IF m.title # <<>> THEN m.title ELSE basename(sections[k].dir))
              /\ Renders(sections[k].date, m.date)
              /\ Renders(sections[k].desc, m.desc)
              /\ startsWith(m.title, <<"<", "s", "c", "r", "i", "p", "t", ">">>)
                    => startsWith(sections[k].title,
                                  Lt \o <<"s", "c", "r", "i", "p", "t">> \o Gt)
        /\ \A n \in 1..Len(sections[k].cards) :
              Renders(sections[k].cards[n].alt, parseName(sections[k].cards[n].src))

\* C8 witness: a section whose title held <script>, & and both quotes is in
\* the written gallery
C8_Witness ==
    /\ pc = "done"
    /\ \E k \in 1..Len(Gallery) :
          /\ startsWith(Gallery[k].title, Lt \o <<"s", "c", "r", "i", "p", "t">> \o Gt)
          /\ \E i \in 1..Len(Gallery[k].title) : startsWith(Drop(Gallery[k].title, i - 1), Amp)
          /\ Len(Gallery[k].cards) >= 1

\* the file names of the cards of a section
CardNames(sec) == [n \in 1..Len(sec.cards) |-> basename(sec.cards[n].src)]

\* C9: the cards of every section are in ascending numeric-aware order of
\* their paths, in either listing order: img1.png, img10.png, img2.png are
\* rendered as img1, img2, img10
C9_ImagesInNumericOrder ==
    \A k \in 1..Len(sections) :
        /\ \A n \in 1..Len(sections[k].cards) : \A m \in 1..(n - 1) :
              localeCompare(sections[k].cards[m].src, sections[k].cards[n].src, TRUE) < 0
        /\ Len(sections[k].cards) = 3
              => CardNames(sections[k]) = <<FileSets[1][1], FileSets[1][3], FileSets[1][2]>>

\* C9 witness: the album of img1.png, img10.png, img2.png, listed in reverse,
\* is in the written gallery
C9_Witness ==
    /\ pc = "done"
    /\ fsys.rev
    /\ \E k \in 1..Len(Gallery) : Len(Gallery[k].cards) = 3

(***************************************************************************)
(* readAlbumMeta on its own: one album directory whose album.yml,          *)
(* album.yaml and album.json are each missing, unreadable or hold one of   *)
(* Texts, and one call.                                                    *)
(***************************************************************************)
\* the states of a sidecar file: 0 missing, -1 unreadable, n holding Texts[n]
SideStates == (-1)..Len(Texts)

OneDir(d) == [root |-> TRUE, rev |-> FALSE, dirs |-> [i \in DirIds |-> IF i = 1 THEN d ELSE Absent]]

InitMeta ==
    /\ fsys \in {OneDir(Dir(1, 1, sd)) : sd \in [1..3 -> SideStates]}
    /\ pc = "call"
    /\ arg = DirPath(1)
    /\ Fresh

CallReadAlbumMeta ==
    /\ pc = "call"
    /\ ret' = readAlbumMeta(fsys, arg)
    /\ pc' = "returned"
    /\ UNCHANGED <<fsys, walkList, files, albums, probe, albumInfo, sortedAlbumDirs,
                   sections, items, outWrites, stdout, stderr, exitCode, arg>>

NextMeta == CallReadAlbumMeta

SpecMeta == InitMeta /\ [][NextMeta]_vars

Meta(title, date, desc) == [title |-> title, date |-> date, desc |-> desc]

\* the title, date and description each of Texts gives when read as YAML
YamlMeta ==
    <<Meta(<<"<", "s", "c", "r", "i", "p", "t", ">", "&", "'", "\"">>, <<"2", "0", "2", "4", "-", "0", "1", "-", "0", "1">>, <<>>),
      Meta(<<>>, <<"2", "0", "2", "3", "-", "0", "5", "-", "0", "5">>, <<>>),
      NoMeta, NoMeta, NoMeta, NoMeta, NoMeta,
      Meta(<<"0">>, <<>>, <<"a", "&", "l", "t", ";">>)>>

\* the Texts that are JSON documents: an object, null and a string
JsonTexts == {3, 4, 7}

\* the title, date and description each of them gives: null and the string
\* give none
JsonMeta ==
    [n \in JsonTexts |-> IF n = 3 THEN Meta(<<"T">>, <<"2", "0", "2", "4", "-", "0", "1", "-", "0", "1">>, <<"7">>) ELSE NoMeta]

\* candidate k exists and parses: any readable text is YAML, a readable
\* album.json must be one of JsonTexts
Usable(sd, k) == sd[k] >= 1 /\ (k = 3 => sd[k] \in JsonTexts)

\* the metadata of the first usable candidate, the defaults when there is none
ExpectedMeta(sd) ==
    IF Usable(sd, 1) THEN YamlMeta[sd[1]]
    ELSE IF Usable(sd, 2) THEN YamlMeta[sd[2]]
    ELSE IF Usable(sd, 3) THEN JsonMeta[sd[3]]
    ELSE NoMeta

\* C2: readAlbumMeta returns, and never throws: what it returns is the
\* metadata of the first of album.yml, album.yaml, album.json that exists and
\* parses, or empty title, date and desc when none does
C2_FirstUsableCandidate ==
    pc = "returned" => ret = Returned(ExpectedMeta(fsys.dirs[1].side))

\* C2 witness: album.yml is missing, album.yaml unreadable, and the call
\* returned the metadata of album.json
C2_Witness ==
    /\ pc = "returned"
    /\ fsys.dirs[1].side = <<0, -1, 3>>
    /\ ret.kind = "return"
    /\ ret.meta.title = <<"T">>

(***************************************************************************)
(* parseSimpleYaml of generate-gallery.mjs on its own: one `key: value`    *)
(* line, the value bare or wrapped in a pair of quotes, with or without    *)
(* white space around it and a comment after it, then a lookup of the key. *)
(***************************************************************************)
YamlKeys == {<<"t", "i", "t", "l", "e">>, <<"d", "a", "t", "e">>}

YamlBodies == {<<"H", "e", "l", "l", "o">>, <<"a", " ", "b">>, <<"2", "0", "2", "4", "-", "0", "1", "-", "0", "1">>}

YamlQuotes == {<<>>, <<"\"">>, <<"'">>}

YamlPads == {<<>>, <<" ">>, <<" ", " ">>}

YamlComments == {<<>>, <<" ", "#", " ", "n", "o", "t", "e">>, <<" ", " ", "#", "x">>}

YamlEnds == {<<>>, <<" ">>, <<"\r", "\n">>}

\* the line: key, colon, padding, the value in its quotes, comment, line end
YamlText(key, pad, quote, v, comment, end) ==
    key \o <<":">> \o pad \o quote \o v \o quote \o comment \o end

InitYaml ==
    /\ arg \in {[key |-> k, value |-> v, quote |-> q, comment |-> c,
                 text |-> YamlText(k, p, q, v, c, e)] :
                   k \in YamlKeys, v \in YamlBodies, q \in YamlQuotes,
                   p \in YamlPads, c \in YamlComments, e \in YamlEnds}
    /\ fsys = NoRoot
    /\ pc = "call"
    /\ Fresh

\* parseSimpleYaml(text)[key]
CallParseSimpleYaml ==
    /\ pc = "call"
    /\ ret' = Get(parseSimpleYaml(arg.text), arg.key)
    /\ pc' = "returned"
    /\ UNCHANGED <<fsys, walkList, files, albums, probe, albumInfo, sortedAlbumDirs,
                   sections, items, outWrites, stdout, stderr, exitCode, arg>>

NextYaml == CallParseSimpleYaml

SpecYaml == InitYaml /\ [][NextYaml]_vars

\* C6: for a line `key: value`, the value bare or in matching quotes, with
\* white space around it and possibly a # comment after it, the value stored
\* under the key is the value alone: no white space around it, no wrapping
\* quotes, no comment
C6_StoredValueIsBare ==
    pc = "returned" => ret = Str(arg.value)

\* C6: the same for the lines whose value is not both quoted and followed by
\* a comment, which is what parseSimpleYaml does
C6_BareUnlessQuotedWithComment ==
    (pc = "returned" /\ (arg.quote = <<>> \/ arg.comment = <<>>)) => ret = Str(arg.value)

(***************************************************************************)
(* The per-image generator (part_000): mkdir and walk are those of         *)
(* generate-gallery.mjs line for line; each image has its own sidecar,     *)
(* read by readMeta, and main builds one item per image.                   *)
(***************************************************************************)
outFile0 == <<"s", "o", "u", "r", "c", "e", "/", "g", "a", "l", "l", "e", "r", "y", "/", "i", "n", "d", "e", "x", ".", "m", "d">>

\* the value readMeta returns, or the jump to its catch block
Value(v) == [kind |-> "return", v |-> v]

Caught == [kind |-> "caught", v |-> Undefined]

\* return JSON.parse(buf), which throws a SyntaxError on malformed text
jsonResult(parsed) == IF parsed.ok THEN Value(parsed.v) ELSE Caught

\* the body of readMeta's loop for the sidecar p, raw being what readFile gave
metaFile(p, raw) ==
    IF ~raw.ok THEN Caught
    ELSE IF endsWith(p, <<".", "j", "s", "o", "n">>) THEN jsonResult(JSONparse(raw.text))
    ELSE Value(parseSimpleYaml0(raw.text))

\* readMeta from the k-th of base + ".yml", base + ".yaml", base + ".json" on
RECURSIVE readMetaFrom(_, _, _)

nextMetaFile(fs, base, k, r) == IF r.kind = "caught" THEN readMetaFrom(fs, base, k) ELSE r

readMetaFrom(fs, base, k) ==
    IF k > Len(SidecarExts) THEN Value(Obj(<<>>))
    ELSE nextMetaFile(fs, base, k + 1,
                      metaFile(base \o SidecarExts[k], readFile(fs, base \o SidecarExts[k])))

readMeta(fs, imgPath) == readMetaFrom(fs, replaceFirst(imgPath, extname(imgPath), <<>>), 1)

\* `${v ? escapeHtml(v) : ""}`
shown(v) == IF Truthy(v) THEN escapeHtml(JsString(v)) ELSE <<>>

\* one item of main: the texts inserted into the figure
item(imgPath, meta) ==
    [src   |-> imgPath,
     url   |-> toSiteUrl(imgPath),
     title |-> escapeHtml(JsString(OrElse(Get(meta, <<"t", "i", "t", "l", "e">>), Str(parseName(imgPath))))),
     date  |-> shown(OrElse(Get(meta, <<"d", "a", "t", "e">>), Str(<<>>))),
     desc  |-> shown(OrElse(Get(meta, <<"d", "e", "s", "c">>), Str(<<>>)))]

\* files = (await walk(imagesRoot)).filter(...).sort(...)
WalkReturn0 ==
    /\ pc = "walk"
    /\ ~HasDir(walkList)
    /\ files' = sort("files", filter([i \in 1..Len(walkList) |-> walkList[i].p], isImage))
    /\ pc' = "items"
    /\ UNCHANGED <<fsys, walkList, albums, probe, albumInfo, sortedAlbumDirs, sections,
                   items, outWrites, stdout, stderr, exitCode, arg, ret>>

\* one turn of for (const imgPath of files): meta.title of a meta that is
\* null or undefined throws a TypeError, which rejects main
RenderImage ==
    /\ pc = "items"
    /\ Len(items) < Len(files)
    /\ \E r \in {readMeta(fsys, files[Len(items) + 1])} :
           IF GetThrows(r.v)
           THEN Fail("meta") /\ UNCHANGED items
           ELSE /\ items' = Append(items, item(files[Len(items) + 1], r.v))
                /\ UNCHANGED <<pc, stderr, exitCode>>
    /\ UNCHANGED <<fsys, walkList, files, albums, probe, albumInfo, sortedAlbumDirs,
                   sections, outWrites, stdout, arg, ret>>

WriteFile0 ==
    /\ pc = "items"
    /\ Len(items) = Len(files)
    /\ outWrites' = Append(outWrites, [file |-> outFile0, doc |-> items])
    /\ pc' = "written"
    /\ UNCHANGED <<fsys, walkList, files, albums, probe, albumInfo, sortedAlbumDirs,
                   sections, items, stdout, stderr, exitCode, arg, ret>>

WriteFails0 ==
    /\ pc = "items"
    /\ Len(items) = Len(files)
    /\ Fail("write")
    /\ UNCHANGED <<fsys, walkList, files, albums, probe, albumInfo, sortedAlbumDirs,
                   sections, items, outWrites, stdout, arg, ret>>

LogSummary0 ==
    /\ pc = "written"
    /\ stdout' = Append(stdout, [images |-> Len(files)])
    /\ exitCode' = 0
    /\ pc' = "done"
    /\ UNCHANGED <<fsys, walkList, files, albums, probe, albumInfo, sortedAlbumDirs,
                   sections, items, outWrites, stderr, arg, ret>>

\* the first directory holds img2.png with any of its three sidecars in any
\* state, the second nothing or p.JPG with a p.yml
ImageTrees ==
    {[root |-> TRUE, rev |-> r,
      dirs |-> [i \in DirIds |-> IF i = 1 THEN Dir(3, 2, sd) ELSE IF i = 2 THEN d ELSE Absent]] :
        r \in BOOLEAN, sd \in [1..3 -> SideStates],
        d \in {Absent, Dir(2, 3, <<1, 0, 0>>), Unlistable}}

InitImage ==
    /\ fsys \in ImageTrees
    /\ Start

NextImage ==
    \/ Mkdir
    \/ MkdirFails
    \/ Readdir
    \/ WalkReturn0
    \/ RenderImage
    \/ WriteFile0
    \/ WriteFails0
    \/ LogSummary0

SpecImage == InitImage /\ [][NextImage]_vars

\* C10: whatever the sidecars of an image hold, loading its metadata and
\* using it raises no error: a run that has listed the tree goes on to the
\* write of the output file with one item for each image
C10_MetaErrorsSwallowed ==
    /\ pc = "failed" => stderr # <<"meta">>
    /\ outWrites # <<>> => Len(outWrites[1].doc) = Len(files)

====
